---- MODULE Spec2Model ----
(***************************************************************************)
(* Model of the NOAA 2024 storm-event cleaning scripts:                    *)
(*   codigo/limpieza de datos NOAA 2024.py   (clean + merge, "cleaner")    *)
(*   codigo/preprocesamiento de datos NOAA.py (generic preprocessing)      *)
(*   codigo/Limpieza final.py                (final null handling)         *)
(*   codigo/Chequeo Archivo final.py         (validation report)           *)
(*                                                                         *)
(* A string is a sequence of characters; a character is a one-character    *)
(* string, or the name of its code point ("U+00E9") when it is not ASCII.  *)
(* A float is a record [m, e] standing for m * 10^e.                       *)
(***************************************************************************)
EXTENDS Integers, Sequences, FiniteSets, TLC

VARIABLES
    pc,              \* position of the running script
    value,           \* argument of convertir_damage
    col,             \* argument of normalizar_nombre_columna
    result,          \* value returned by the function under execution
    fs,              \* the files on disk: file name -> content (NoFile when absent)
    detalles_df,     \* the cleaner's three tables and their merge
    fatalidades_df,
    lugares_df,
    master_df,
    df,              \* the table of the other scripts
    umbral,          \* null-fraction threshold handed to the drop functions
    log              \* what the logging module has been given, in order

tables == <<detalles_df, fatalidades_df, lugares_df, master_df>>
vars == <<pc, value, col, result, fs, detalles_df, fatalidades_df, lugares_df, master_df,
          df, umbral, log>>

(***************************************************************************)
(* Bounds of the explored inputs.                                          *)
(***************************************************************************)
MaxLen == 4          \* longest monetary string explored
MaxName == 3         \* longest column name explored (besides the examples)

None == [k |-> "None"]
NoFile == [k |-> "NoFile"]

\* the files the scripts read and write
NoFiles == [entrada |-> NoFile,      \* the CSV chosen in the preprocessing dialog
            detalles |-> NoFile, fatalidades |-> NoFile, lugares |-> NoFile,
            limpio |-> NoFile,       \* "Datos NOAA 2024 limpios.csv"
            final |-> NoFile,        \* "Datos_NOAA_2024_limpios_final.csv"
            informe |-> NoFile]      \* "informe CSV final.txt"

\* a function-level run touches neither files nor tables
NoTables ==
    /\ fs = NoFiles
    /\ detalles_df = None /\ fatalidades_df = None /\ lugares_df = None /\ master_df = None
    /\ df = None
    /\ umbral = None
    /\ log = <<>>

RECURSIVE SeqsUpTo(_, _)
SeqsUpTo(S, n) ==
    IF n = 0 THEN {<<>>}
    ELSE LET shorter == SeqsUpTo(S, n - 1)
         IN  shorter \cup {Append(s, c) : s \in {t \in shorter : Len(t) = n - 1}, c \in S}

RECURSIVE MapSeq(_, _)
MapSeq(F(_), s) == IF s = <<>> THEN <<>> ELSE <<F(Head(s))>> \o MapSeq(F, Tail(s))

RECURSIVE Flatten(_)
Flatten(ss) == IF ss = <<>> THEN <<>> ELSE Head(ss) \o Flatten(Tail(ss))

(***************************************************************************)
(* Python str methods used by the scripts.                                 *)
(***************************************************************************)
Digits == {"0", "1", "2", "3", "4", "5", "6", "7", "8", "9"}
LowerAscii == {"a", "b", "c", "d", "e", "f", "g", "h", "i", "j", "k", "l", "m",
               "n", "o", "p", "q", "r", "s", "t", "u", "v", "w", "x", "y", "z"}
Whitespace == {" ", "TAB", "U+00A0"}       \* what str.strip() removes
NonAscii == {"U+00A0", "U+00B0", "U+00C9", "U+00E9", "U+0301"}

DigitVal(c) ==
    CASE c = "0" -> 0 [] c = "1" -> 1 [] c = "2" -> 2 [] c = "3" -> 3 [] c = "4" -> 4
      [] c = "5" -> 5 [] c = "6" -> 6 [] c = "7" -> 7 [] c = "8" -> 8 [] c = "9" -> 9

UpperAscii == <<"A", "B", "C", "D", "E", "F", "G", "H", "I", "J", "K", "L", "M",
                "N", "O", "P", "Q", "R", "S", "T", "U", "V", "W", "X", "Y", "Z">>
LowerAsciiSeq == <<"a", "b", "c", "d", "e", "f", "g", "h", "i", "j", "k", "l", "m",
                   "n", "o", "p", "q", "r", "s", "t", "u", "v", "w", "x", "y", "z">>
Letters == 1..26

\* str.upper() on one character
UpperChar(c) ==
    IF \E i \in Letters : LowerAsciiSeq[i] = c
    THEN UpperAscii[CHOOSE i \in Letters : LowerAsciiSeq[i] = c]
    ELSE IF c = "U+00E9" THEN "U+00C9" ELSE c

\* str.lower() on one character
LowerChar(c) ==
    IF \E i \in Letters : UpperAscii[i] = c
    THEN LowerAsciiSeq[CHOOSE i \in Letters : UpperAscii[i] = c]
    ELSE IF c = "U+00C9" THEN "U+00E9" ELSE c

Upper(s) == MapSeq(UpperChar, s)
Lower(s) == MapSeq(LowerChar, s)

RECURSIVE LStrip(_)
LStrip(s) == IF s # <<>> /\ Head(s) \in Whitespace THEN LStrip(Tail(s)) ELSE s

RECURSIVE RStrip(_)
RStrip(s) ==
    IF s # <<>> /\ s[Len(s)] \in Whitespace THEN RStrip(SubSeq(s, 1, Len(s) - 1)) ELSE s

Strip(s) == RStrip(LStrip(s))

(***************************************************************************)
(* Floats: [m, e] stands for m * 10^e.  NormFloat gives the canonical form *)
(* (no trailing zero in m), so that equal numbers are equal records.       *)
(***************************************************************************)
Float(m, e) == [k |-> "float", m |-> m, e |-> e]
Zero == Float(0, 0)

RECURSIVE NormFloat(_)
NormFloat(x) ==
    IF x.m = 0 THEN Zero
    ELSE IF x.m % 10 = 0 THEN NormFloat(Float(x.m \div 10, x.e + 1))
    ELSE x

IsFloat(x) == x.k = "float"
Times10(x, n) == NormFloat(Float(x.m, x.e + n))
Negative(x) == IsFloat(x) /\ x.m < 0

RECURSIVE LeadingDigits(_)
LeadingDigits(s) ==
    IF s # <<>> /\ Head(s) \in Digits THEN 1 + LeadingDigits(Tail(s)) ELSE 0

RECURSIVE DigitsToInt(_)
DigitsToInt(s) ==
    IF s = <<>> THEN 0 ELSE 10 * DigitsToInt(SubSeq(s, 1, Len(s) - 1)) + DigitVal(s[Len(s)])

\* The number written as <intpart>.<fracpart>
Decimal(intpart, fracpart) ==
    NormFloat(Float(DigitsToInt(intpart \o fracpart), 0 - Len(fracpart)))

(***************************************************************************)
(* float(str): surrounding whitespace is ignored, then an optional sign,   *)
(* then digits[.[digits]] or .digits.  Anything else is a ValueError.      *)
(* (Exponents, underscores and the words inf/nan use characters outside    *)
(* DamageChars.)                                                           *)
(***************************************************************************)
PyFloat(str) ==
    LET s    == Strip(str)
        neg  == s # <<>> /\ Head(s) = "-"
        body == IF s # <<>> /\ Head(s) \in {"-", "+"} THEN Tail(s) ELSE s
        ni   == LeadingDigits(body)
        rest == SubSeq(body, ni + 1, Len(body))
        dot  == rest # <<>> /\ Head(rest) = "."
        frac == IF dot THEN Tail(rest) ELSE rest
        nf   == LeadingDigits(frac)
        ok   == /\ nf = Len(frac)
                /\ ni + nf > 0
        mag  == Decimal(SubSeq(body, 1, ni), frac)
    IN  IF ok THEN [ok |-> TRUE, val |-> IF neg THEN Float(0 - mag.m, mag.e) ELSE mag]
        ELSE [ok |-> FALSE, val |-> None]

(***************************************************************************)
(* re.match(r"(\d+(\.\d+)?)([KMB])?", value): the match is anchored at the *)
(* start and every quantifier is greedy.                                   *)
(***************************************************************************)
ReMatchDamage(s) ==
    LET ni      == LeadingDigits(s)
        rest    == SubSeq(s, ni + 1, Len(s))
        hasFrac == Len(rest) >= 2 /\ rest[1] = "." /\ rest[2] \in Digits
        nf      == IF hasFrac THEN LeadingDigits(Tail(rest)) ELSE 0
        endNum  == IF hasFrac THEN ni + 1 + nf ELSE ni
        hasSuf  == endNum + 1 <= Len(s) /\ s[endNum + 1] \in {"K", "M", "B"}
    IN  IF ni = 0 THEN [matched |-> FALSE]
        ELSE [matched |-> TRUE,
              group1  |-> SubSeq(s, 1, endNum),
              group3  |-> IF hasSuf THEN s[endNum + 1] ELSE "None"]

Str(s) == [k |-> "str", s |-> s]
IsStr(x) == x.k = "str"
Raised(e) == [k |-> "raised", e |-> e]

NaN == [k |-> "NaN"]

\* pd.isnull / pd.notnull of a scalar
IsNull(x) == x \in {NaN, None}
NotNull(x) == ~IsNull(x)

\* a suffix table with K and M exchanged
SuffixExpSwapped(suffix) ==
    CASE suffix = "K" -> 6 [] suffix = "M" -> 3 [] suffix = "B" -> 9 [] OTHER -> 0

\* the multiplier of a suffix, as a power of ten: K 1e3, M 1e6, B 1e9, none 1
SuffixExp(suffix) ==
    CASE suffix = "K" -> 3 [] suffix = "M" -> 6 [] suffix = "B" -> 9 [] OTHER -> 0

\* convertir_damage of "limpieza de datos NOAA 2024.py"
limpieza_convertir_damage(v) ==
    IF ~IsStr(v) THEN (IF NotNull(v) THEN v ELSE Zero)
    ELSE LET s     == Strip(Upper(v.s))
             match == ReMatchDamage(s)
         IN  IF match.matched
             THEN LET number == PyFloat(match.group1)
                  IN  IF ~number.ok THEN Zero
                      ELSE Times10(number.val, SuffixExp(match.group3))
             ELSE LET plain == PyFloat(s)
                  IN  IF plain.ok THEN plain.val ELSE Zero

\* convertir_damage of "preprocesamiento de datos NOAA.py"
pre_convertir_damage(v) ==
    IF ~IsStr(v) THEN (IF NotNull(v) THEN v ELSE Zero)
    ELSE LET s     == Strip(Upper(v.s))
             match == ReMatchDamage(s)
         IN  IF match.matched
             THEN LET number == PyFloat(match.group1)
                  IN  IF ~number.ok THEN Raised("ValueError")
                      ELSE Times10(number.val, SuffixExp(match.group3))
             ELSE Zero

(***************************************************************************)
(* The monetary parsers applied to one raw value.                          *)
(***************************************************************************)
DamageChars == {"2", "0", ".", "k", "M", "B", "-", " ", "x"}
DamageInputs ==
    {None, NaN, Float(5, 0), Float(-5, 0)} \cup {Str(s) : s \in SeqsUpTo(DamageChars, MaxLen)}

InitDamage ==
    /\ pc = "damage:call"
    /\ value \in DamageInputs
    /\ col = <<>>
    /\ result = None
    /\ NoTables

LimpiezaConvertirDamage ==
    /\ pc = "damage:call"
    /\ result' = limpieza_convertir_damage(value)
    /\ pc' = "damage:limpieza"
    /\ UNCHANGED <<value, col, fs, tables, df, umbral, log>>

PreConvertirDamage ==
    /\ pc = "damage:call"
    /\ result' = pre_convertir_damage(value)
    /\ pc' = "damage:pre"
    /\ UNCHANGED <<value, col, fs, tables, df, umbral, log>>

NextDamage == LimpiezaConvertirDamage \/ PreConvertirDamage

SpecDamage == InitDamage /\ [][NextDamage]_vars

DamageReturned == pc \in {"damage:limpieza", "damage:pre"}

\* C4: for every string input (leading minus, no digits and the empty string
\* included) both convertir_damage return without raising a finite number
\* >= 0, and for None they return 0.
C4_TotalNonNegative ==
    DamageReturned /\ (IsStr(value) \/ value = None) =>
        /\ IsFloat(result)
        /\ result.m >= 0
        /\ (value = None => result = Zero)

(***************************************************************************)
(* The value rule as the specification words it: the text is the raw       *)
(* string upper-cased and trimmed; its numeric part is the longest prefix  *)
(* of the form digits or digits.digits.                                    *)
(***************************************************************************)
IsNumberText(p) ==
    \E i \in 1..Len(p) :
        /\ \A j \in 1..i : p[j] \in Digits
        /\ \/ i = Len(p)
           \/ /\ i + 2 <= Len(p)
              /\ p[i + 1] = "."
              /\ \A j \in (i + 2)..Len(p) : p[j] \in Digits

NumberPrefixLens(t) == {n \in 1..Len(t) : IsNumberText(SubSeq(t, 1, n))}
StartsWithNumber(t) == NumberPrefixLens(t) # {}
NumericPartLen(t) == CHOOSE n \in NumberPrefixLens(t) : \A o \in NumberPrefixLens(t) : o <= n

ValueOnMatch(t) ==
    LET n   == NumericPartLen(t)
        suf == IF n < Len(t) THEN t[n + 1] ELSE "None"
        num == PyFloat(SubSeq(t, 1, n)).val
    IN  CASE suf = "K" -> Times10(num, 3)
          [] suf = "M" -> Times10(num, 6)
          [] suf = "B" -> Times10(num, 9)
          [] OTHER -> num

PlainParseOrZero(t) == IF PyFloat(t).ok THEN PyFloat(t).val ELSE Zero

DamageText == Strip(Upper(value.s))

\* C5 as stated: in both implementations a matching string yields its numeric
\* part times the suffix multiplier, and a non-matching string yields its plain
\* float parse, or 0 when that parse fails.
C5_ValueRuleBoth ==
    DamageReturned /\ IsStr(value) =>
        result = IF StartsWithNumber(DamageText) THEN ValueOnMatch(DamageText)
                 ELSE PlainParseOrZero(DamageText)

\* C5 amended: a matching string yields its numeric part times the suffix
\* multiplier in both implementations; a non-matching string yields its plain
\* float parse (0 when the parse fails) in the cleaner's convertir_damage and
\* always 0 in the preprocessing script's convertir_damage.
C5_ValueRule ==
    DamageReturned /\ IsStr(value) =>
        result = IF StartsWithNumber(DamageText) THEN ValueOnMatch(DamageText)
                 ELSE IF pc = "damage:limpieza" THEN PlainParseOrZero(DamageText)
                 ELSE Zero

\* a suffixed number was scaled by the cleaner, and the preprocessing script
\* returned 0 for a parseable string that does not start with a digit
C5_Witness ==
    \/ /\ pc = "damage:limpieza"
       /\ value = Str(<<"2", ".", "2", "k">>)
       /\ result = Float(22, 2)
    \/ /\ pc = "damage:pre"
       /\ value = Str(<<"-", "2">>)
       /\ result = Zero

(***************************************************************************)
(* normalizar_nombre_columna.  Unicode data of the characters used:        *)
(* NFKD(U+00E9) = e U+0301, NFKD(U+00C9) = E U+0301, NFKD(U+00A0) = space, *)
(* U+00B0 (degree sign) has no decomposition.                              *)
(***************************************************************************)
ReplaceSpace(c) == IF c = " " THEN "_" ELSE c

NFKDChar(c) ==
    CASE c = "U+00E9" -> <<"e", "U+0301">>
      [] c = "U+00C9" -> <<"E", "U+0301">>
      [] c = "U+00A0" -> <<" ">>
      [] OTHER -> <<c>>

NFKD(s) == Flatten(MapSeq(NFKDChar, s))

IsAscii(c) == c \notin NonAscii
EncodeAsciiIgnore(s) == SelectSeq(s, IsAscii)

CanonicalChars == LowerAscii \cup Digits \cup {"_"}
IsCanonical(c) == c \in CanonicalChars

\* the normalizer without its closing re.sub
normalizar_sin_filtro(c) ==
    EncodeAsciiIgnore(NFKD(MapSeq(ReplaceSpace, Lower(Strip(c)))))

normalizar_nombre_columna(c) ==
    LET c1 == MapSeq(ReplaceSpace, Lower(Strip(c)))
        c2 == EncodeAsciiIgnore(NFKD(c1))
    IN  SelectSeq(c2, IsCanonical)

NameChars == {"a", "A", "1", " ", "TAB", "_", "(", "U+00C9", "U+00B0", "U+00A0"}
BeginLatDeg == <<"B", "e", "g", "i", "n", " ", "L", "a", "t", " ", "(", "U+00B0", ")">>
NameInputs == SeqsUpTo(NameChars, MaxName) \cup {BeginLatDeg}

InitNorm ==
    /\ pc = "norm:call"
    /\ col \in NameInputs
    /\ value = None
    /\ result = None
    /\ NoTables

NormalizarNombreColumna ==
    /\ pc = "norm:call"
    /\ result' = normalizar_nombre_columna(col)
    /\ pc' = "norm:returned"
    /\ UNCHANGED <<value, col, fs, tables, df, umbral, log>>

NextNorm == NormalizarNombreColumna

SpecNorm == InitNorm /\ [][NextNorm]_vars

\* C6: the normalized name contains only characters of [a-z0-9_] and
\* normalizing it again gives the same name.
C6_IdempotentCanonical ==
    pc = "norm:returned" =>
        /\ \A i \in 1..Len(result) : result[i] \in CanonicalChars
        /\ normalizar_nombre_columna(result) = result

\* an accented, spaced and punctuated name was normalized to a non-empty token
C6_Witness ==
    /\ pc = "norm:returned"
    /\ col = <<"U+00C9", " ", "(">>
    /\ result = <<"e", "_">>

Count(s, S) == Cardinality({i \in 1..Len(s) : s[i] \in S})

\* C7: "Begin Lat (°)" normalizes to exactly "begin_lat", and every internal
\* whitespace character of a name is replaced by "_" rather than deleted.
C7_BareToken ==
    pc = "norm:returned" =>
        /\ col = BeginLatDeg => result = <<"b", "e", "g", "i", "n", "_", "l", "a", "t">>
        /\ Count(result, {"_"}) = Count(Strip(col), {"_"} \cup Whitespace)

(***************************************************************************)
(* Tables.  A DataFrame is [columns, rows]: the column labels in order and *)
(* the rows in order, each row a tuple of cells aligned with the labels.   *)
(* A cell is NaN, a Float, a Str or a Bool.  A CSV file has the same shape *)
(* with text fields (character sequences) for cells.                       *)
(***************************************************************************)
Bool(b) == [k |-> "bool", v |-> b]
IsBool(x) == x.k = "bool"

Table(columns, rows) == [columns |-> columns, rows |-> rows]
NRows(t) == Len(t.rows)
NCols(t) == Len(t.columns)
Cols(t) == 1..NCols(t)
Rows(t) == 1..NRows(t)
HasCol(t, name) == \E j \in Cols(t) : t.columns[j] = name
ColIdx(t, name) == CHOOSE j \in Cols(t) : t.columns[j] = name
Cell(t, i, name) == t.rows[i][ColIdx(t, name)]

\* df.empty
Empty(t) == NRows(t) = 0 \/ NCols(t) = 0

RECURSIVE KeepIdx(_, _, _)
\* the subsequence of s at the indices >= j that satisfy Keep
KeepIdx(s, Keep(_), j) ==
    IF j > Len(s) THEN <<>>
    ELSE (IF Keep(j) THEN <<s[j]>> ELSE <<>>) \o KeepIdx(s, Keep, j + 1)

\* the table restricted to the columns whose position satisfies Keep
SelectCols(t, Keep(_)) ==
    Table(KeepIdx(t.columns, Keep, 1),
          [i \in Rows(t) |-> KeepIdx(t.rows[i], Keep, 1)])

\* df.drop(columns=labels): every column carrying one of the labels goes
DropLabels(t, labels) ==
    LET Keep(j) == t.columns[j] \notin labels IN SelectCols(t, Keep)

\* the table with the cells of column j rewritten by F
MapCol(t, j, F(_)) ==
    Table(t.columns, [i \in Rows(t) |-> [t.rows[i] EXCEPT ![j] = F(@)]])

\* df[name] = cells: overwrite the column when the label exists, else append it
SetCol(t, name, cells) ==
    IF HasCol(t, name)
    THEN Table(t.columns, [i \in Rows(t) |-> [t.rows[i] EXCEPT ![ColIdx(t, name)] = cells[i]]])
    ELSE Table(Append(t.columns, name), [i \in Rows(t) |-> Append(t.rows[i], cells[i])])

NullCount(t, j) == Cardinality({i \in Rows(t) : IsNull(t.rows[i][j])})

(***************************************************************************)
(* pd.read_csv and DataFrame.to_csv(index=False).                          *)
(***************************************************************************)
\* the default na_values of read_csv that the explored fields can spell
NAValues == {<<>>, <<"n", "a", "n">>, <<"N", "a", "N">>, <<"N", "A">>,
             <<"n", "u", "l", "l">>, <<"N", "U", "L", "L">>, <<"N", "o", "n", "e">>}
TrueText == <<"T", "r", "u", "e">>
FalseText == <<"F", "a", "l", "s", "e">>

ReadCsv(file) ==
    LET present(j) == {i \in Rows(file) : file.rows[i][j] \notin NAValues}
        numeric(j) == \A i \in present(j) : PyFloat(file.rows[i][j]).ok
        boolean(j) == /\ present(j) = Rows(file)
                      /\ \A i \in Rows(file) : file.rows[i][j] \in {TrueText, FalseText}
        cell(i, j) ==
            LET f == file.rows[i][j]
            IN  IF f \in NAValues THEN NaN
                ELSE IF numeric(j) THEN NormFloat(PyFloat(f).val)
                ELSE IF boolean(j) THEN Bool(f = TrueText)
                ELSE Str(f)
    IN  Table(file.columns, [i \in Rows(file) |-> [j \in Cols(file) |-> cell(i, j)]])

RECURSIVE NatDigits(_)
NatDigits(n) ==
    LET d == <<"0", "1", "2", "3", "4", "5", "6", "7", "8", "9">>[(n % 10) + 1]
    IN  IF n < 10 THEN <<d>> ELSE Append(NatDigits(n \div 10), d)

RECURSIVE ZerosSeq(_)
ZerosSeq(n) == IF n <= 0 THEN <<>> ELSE <<"0">> \o ZerosSeq(n - 1)

\* repr of a float: 2000.0, 0.25, -2.0
FormatFloat(x) ==
    LET mag  == NatDigits(IF x.m < 0 THEN 0 - x.m ELSE x.m)
        sign == IF x.m < 0 THEN <<"-">> ELSE <<>>
        pad  == ZerosSeq((1 - x.e) - Len(mag)) \o mag
        cut  == Len(pad) + x.e
    IN  IF x.e >= 0 THEN sign \o mag \o ZerosSeq(x.e) \o <<".", "0">>
        ELSE sign \o SubSeq(pad, 1, cut) \o <<".">> \o SubSeq(pad, cut + 1, Len(pad))

\* a datetime64 value at midnight, and a datetime.time value
DateCell(y, m, d) == [k |-> "date", y |-> y, m |-> m, d |-> d]
TimeCell(h, mi) == [k |-> "time", h |-> h, mi |-> mi]
IsDate(c) == c.k = "date"
IsTime(c) == c.k = "time"

\* str.zfill(w) of a text without sign
ZFill(s, w) == IF Len(s) >= w THEN s ELSE ZerosSeq(w - Len(s)) \o s

\* to_csv writes 2024-03-15 for a date column and 09:30:00 for a time
FormatDate(c) ==
    ZFill(NatDigits(c.y), 4) \o <<"-">> \o ZFill(NatDigits(c.m), 2) \o <<"-">> \o ZFill(NatDigits(c.d), 2)
FormatTime(c) ==
    ZFill(NatDigits(c.h), 2) \o <<":">> \o ZFill(NatDigits(c.mi), 2) \o <<":", "0", "0">>

\* str(x) of a whole number held as an integer: 30, -1
IntText(c) ==
    (IF c.m < 0 THEN <<"-">> ELSE <<>>) \o NatDigits(IF c.m < 0 THEN 0 - c.m ELSE c.m)
    \o ZerosSeq(c.e)

\* the dtype pandas holds for column j of a table that came from read_csv
DType(t, j) ==
    IF NRows(t) = 0 THEN "object"
    ELSE IF \A i \in Rows(t) : IsBool(t.rows[i][j]) THEN "bool"
    ELSE IF \A i \in Rows(t) : IsNull(t.rows[i][j]) \/ IsFloat(t.rows[i][j])
         THEN (IF \A i \in Rows(t) : IsFloat(t.rows[i][j]) /\ t.rows[i][j].e >= 0
               THEN "int64" ELSE "float64")
    ELSE "object"

\* str(x) of a cell of column j: 30 in an integer column, 30.0 in a float
\* column, nan for a null
PyStr(t, j, c) ==
    CASE IsNull(c)  -> <<"n", "a", "n">>
      [] IsFloat(c) -> IF DType(t, j) = "int64" THEN IntText(c) ELSE FormatFloat(c)
      [] IsBool(c)  -> IF c.v THEN TrueText ELSE FalseText
      [] OTHER      -> c.s

\* the field to_csv writes for a cell of column j: empty for a null
CsvField(t, j, c) ==
    CASE IsNull(c)  -> <<>>
      [] IsDate(c)  -> FormatDate(c)
      [] IsTime(c)  -> FormatTime(c)
      [] OTHER      -> PyStr(t, j, c)

WriteCsv(t) ==
    Table(t.columns, [i \in Rows(t) |-> [j \in Cols(t) |-> CsvField(t, j, t.rows[i][j])]])

(***************************************************************************)
(* Null fractions.  df.isnull().mean() is nulls/rows, and NaN on a table   *)
(* without rows; a threshold is the rational num/den.  A comparison with   *)
(* NaN is false.                                                           *)
(***************************************************************************)
Ratio(num, den) == [num |-> num, den |-> den]
NullFraction(t, j) == IF NRows(t) = 0 THEN NaN ELSE Ratio(NullCount(t, j), NRows(t))
Greater(fr, u) == fr # NaN /\ fr.num * u.den > u.num * fr.den
GreaterOrEqual(fr, u) == fr # NaN /\ fr.num * u.den >= u.num * fr.den

\* the labels of the columns whose null fraction exceeds the threshold
ColumnasSobreUmbralInclusive(t, u) ==
    {t.columns[j] : j \in {c \in Cols(t) : GreaterOrEqual(NullFraction(t, c), u)}}

ColumnasSobreUmbral(t, u) ==
    {t.columns[j] : j \in {c \in Cols(t) : Greater(NullFraction(t, c), u)}}

\* manejar_columnas_con_nulos of "Limpieza final.py"
manejar_columnas_con_nulos(t, u) == DropLabels(t, ColumnasSobreUmbral(t, u))

\* manejar_nulos of "limpieza de datos NOAA 2024.py"
limpieza_manejar_nulos(t, u) == DropLabels(t, ColumnasSobreUmbral(t, u))

(***************************************************************************)
(* preprocesamiento_general of "preprocesamiento de datos NOAA.py", one    *)
(* operator per block of the function.                                     *)
(***************************************************************************)
\* line 43: df.columns = [normalizar_nombre_columna(c) for c in df.columns]
pre_renombrar(t) == Table(MapSeq(normalizar_nombre_columna, t.columns), t.rows)

\* line 46: df.dropna(axis=1, how='all') keeps the columns holding a value
pre_eliminar_vacias(t) ==
    LET Keep(j) == \E i \in Rows(t) : ~IsNull(t.rows[i][j]) IN SelectCols(t, Keep)

\* lines 49-51
pre_eliminar_nulos(t, u) == DropLabels(t, ColumnasSobreUmbral(t, u))

DuplicatedLabel(t, j) == \E o \in Cols(t) : o # j /\ t.columns[o] = t.columns[j]
EsObject(t, j) == \E i \in Rows(t) : IsStr(t.rows[i][j])

\* lines 54-56: df[col] of a repeated label is a DataFrame, which has no .str
pre_vacios_falla(t) == \E j \in Cols(t) : EsObject(t, j) /\ DuplicatedLabel(t, j)

VaciosPre == {<<>>, <<"n", "a", "n">>, <<"N", "a", "N">>}
LimpiarTexto(c) ==
    IF IsNull(c) THEN NaN
    ELSE IF ~IsStr(c) THEN c
    ELSE IF Strip(c.s) \in VaciosPre THEN NaN ELSE Str(Strip(c.s))

pre_reemplazar_vacios(t) ==
    Table(t.columns,
          [i \in Rows(t) |-> [j \in Cols(t) |->
              IF EsObject(t, j) THEN LimpiarTexto(t.rows[i][j]) ELSE t.rows[i][j]]])

RECURSIVE Contains(_, _)
\* sub in s, for strings
Contains(s, sub) ==
    IF Len(s) < Len(sub) THEN FALSE
    ELSE SubSeq(s, 1, Len(sub)) = sub \/ Contains(Tail(s), sub)

EsColumnaFecha(name) ==
    \/ Contains(name, <<"d", "a", "t", "e">>)
    \/ Contains(name, <<"f", "e", "c", "h", "a">>)
    \/ Contains(name, <<"t", "i", "m", "e">>)

\* pd.to_datetime(errors="coerce") of one cell: a number counts nanoseconds
\* since the epoch; text that is no date (all the text explored) becomes NaT
Timestamp(x) == [k |-> "datetime", ns |-> x]
ToDatetime(c) == IF IsFloat(c) THEN Timestamp(c) ELSE NaN

\* lines 59-66; with a repeated label the assignment fails and is only warned about
pre_fechas(t) ==
    Table(t.columns,
          [i \in Rows(t) |-> [j \in Cols(t) |->
              IF EsColumnaFecha(t.columns[j]) /\ ~DuplicatedLabel(t, j)
              THEN ToDatetime(t.rows[i][j]) ELSE t.rows[i][j]]])

\* lines 69-72: pd.to_numeric(downcast=...) changes the width, not the numbers
\* explored here (small integers)
pre_downcast(t) == t

\* line 75: df.drop_duplicates() keeps the first of equal rows
pre_drop_duplicates(t) ==
    LET Keep(i) == \A o \in 1..(i - 1) : t.rows[o] # t.rows[i]
    IN  Table(t.columns, KeepIdx(t.rows, Keep, 1))

(***************************************************************************)
(* The three column-drop implementations on one loaded table.              *)
(***************************************************************************)
MaxCols == 2         \* most columns of an explored file
MaxRows == 2         \* most rows of an explored file

Info(msg, data) == [level |-> "INFO", msg |-> msg, data |-> data]
Warning(msg, data) == [level |-> "WARNING", msg |-> msg, data |-> data]
Error(msg, data) == [level |-> "ERROR", msg |-> msg, data |-> data]

\* every file with the given header and at most n rows of fields drawn from F
FilesWith(header, F, n) ==
    {Table(header, rows) : rows \in SeqsUpTo([1..Len(header) -> F], n)}

DistinctSeqs(S, n) == {s \in SeqsUpTo(S, n) : \A i, j \in 1..Len(s) : i # j => s[i] # s[j]}

DropNames == {<<"a">>, <<"A">>, <<"b", " ">>}
DropFields == {<<>>, <<" ", "a">>}
DropFiles ==
    UNION {FilesWith(h, DropFields, MaxRows) : h \in DistinctSeqs(DropNames, MaxCols) \ {<<>>}}
UmbralesDrop == {Ratio(1, 4), Ratio(1, 2), Ratio(9, 10), Ratio(1, 1)}

InitDrop ==
    /\ value = None /\ col = <<>> /\ result = None
    /\ fatalidades_df = None /\ lugares_df = None /\ master_df = None
    /\ log = <<>>
    /\ umbral \in UmbralesDrop
    /\ \E file \in DropFiles :
          /\ fs = [NoFiles EXCEPT !.entrada = file]
          /\ \/ pc \in {"final:cargado", "pre:cargado"} /\ df = ReadCsv(file) /\ detalles_df = None
             \/ pc = "limpieza:limpios" /\ detalles_df = ReadCsv(file) /\ df = None

\* Limpieza final, main line 141
ManejarColumnasConNulos ==
    /\ pc = "final:cargado"
    /\ df' = manejar_columnas_con_nulos(df, umbral)
    /\ log' = Append(log, IF ColumnasSobreUmbral(df, umbral) # {}
                          THEN Info("Columnas eliminadas", ColumnasSobreUmbral(df, umbral))
                          ELSE Info("No se encontraron columnas con mayoria de nulos", {}))
    /\ pc' = "final:columnas"
    /\ UNCHANGED <<value, col, result, fs, tables, umbral>>

\* the cleaner, main line 222
ManejarNulos ==
    /\ pc = "limpieza:limpios"
    /\ detalles_df' = limpieza_manejar_nulos(detalles_df, umbral)
    /\ log' = Append(log, Info("Eliminando columnas", ColumnasSobreUmbral(detalles_df, umbral)))
    /\ pc' = "limpieza:sin_nulos"
    /\ UNCHANGED <<value, col, result, fs, fatalidades_df, lugares_df, master_df, df, umbral>>

PreStep(from, to, t) ==
    /\ pc = from
    /\ df' = t
    /\ pc' = to
    /\ UNCHANGED <<value, col, result, fs, tables, umbral>>

PreRenombrar ==
    /\ PreStep("pre:cargado", "pre:renombrado", pre_renombrar(df))
    /\ log' = Append(log, Info("Iniciando preprocesamiento general", {}))

PreEliminarVacias ==
    /\ PreStep("pre:renombrado", "pre:sin_vacias", pre_eliminar_vacias(df))
    /\ UNCHANGED log

PreEliminarNulos ==
    /\ PreStep("pre:sin_vacias", "pre:sin_nulos", pre_eliminar_nulos(df, umbral))
    /\ UNCHANGED log

PreReemplazarVacios ==
    /\ pc = "pre:sin_nulos"
    /\ IF pre_vacios_falla(df)
       THEN PreStep("pre:sin_nulos", "pre:AttributeError", df)
       ELSE PreStep("pre:sin_nulos", "pre:texto_limpio", pre_reemplazar_vacios(df))
    /\ UNCHANGED log

PreFechas ==
    /\ PreStep("pre:texto_limpio", "pre:fechas", pre_fechas(df))
    /\ UNCHANGED log

PreDowncast ==
    /\ PreStep("pre:fechas", "pre:downcast", pre_downcast(df))
    /\ UNCHANGED log

PreDropDuplicates ==
    /\ PreStep("pre:downcast", "pre:retorno", pre_drop_duplicates(df))
    /\ log' = Append(log, Info("Preprocesamiento general completo", {}))

PreprocesamientoGeneral ==
    \/ PreRenombrar \/ PreEliminarVacias \/ PreEliminarNulos \/ PreReemplazarVacios
    \/ PreFechas \/ PreDowncast \/ PreDropDuplicates

NextDrop == ManejarColumnasConNulos \/ ManejarNulos \/ PreprocesamientoGeneral

SpecDrop == InitDrop /\ [][NextDrop]_vars

(***************************************************************************)
(* Column-drop policy, stated on the table each function was handed.       *)
(***************************************************************************)
Handed == ReadCsv(fs.entrada)
HandedRenamed ==
    Table([j \in Cols(Handed) |-> normalizar_nombre_columna(Handed.columns[j])], Handed.rows)

\* the null fraction of column j is defined and strictly greater than u
FractionExceeds(t, j, u) ==
    /\ NRows(t) > 0
    /\ Cardinality({i \in Rows(t) : t.rows[i][j] \in {NaN, None}}) * u.den > u.num * NRows(t)

KeptStrict(t, u) ==
    LET Keep(j) == ~FractionExceeds(t, j, u) IN SelectCols(t, Keep)

\* what preprocesamiento_general keeps: a column that holds a value, when no
\* value-holding column of its label exceeds the threshold
KeptPre(t, u) ==
    LET HoldsValue(j) == \E i \in Rows(t) : t.rows[i][j] \notin {NaN, None}
        Keep(j) ==
            /\ HoldsValue(j)
            /\ \A o \in Cols(t) :
                  t.columns[o] = t.columns[j] /\ HoldsValue(o) => ~FractionExceeds(t, o, u)
    IN  SelectCols(t, Keep)

PreAfterDrop == {"pre:texto_limpio", "pre:AttributeError", "pre:fechas", "pre:downcast",
                 "pre:retorno"}

\* C2 as stated: in all three implementations a column is removed if and only
\* if its null fraction is strictly greater than the threshold, and the kept
\* columns keep their order and every cell value.
C2_StrictDropAll ==
    /\ pc = "final:columnas" => df = KeptStrict(Handed, umbral)
    /\ pc = "limpieza:sin_nulos" => detalles_df = KeptStrict(Handed, umbral)
    /\ pc = "pre:sin_nulos" => df = KeptStrict(HandedRenamed, umbral)

\* C2 amended: manejar_columnas_con_nulos and the cleaner's manejar_nulos remove
\* a column if and only if its null fraction is strictly greater than the
\* threshold, keeping the other columns in order with every cell value;
\* preprocesamiento_general removes a column if and only if it holds no value
\* at all, or its null fraction, or that of another value-holding column with
\* the same normalized name, is strictly greater than the threshold; its kept
\* columns keep their order and their cell values through the drop pass, and
\* no later step removes a column.
C2_StrictDrop ==
    /\ pc = "final:columnas" => df = KeptStrict(Handed, umbral)
    /\ pc = "limpieza:sin_nulos" => detalles_df = KeptStrict(Handed, umbral)
    /\ pc = "pre:sin_nulos" => df = KeptPre(HandedRenamed, umbral)
    /\ pc \in PreAfterDrop => df.columns = KeptPre(HandedRenamed, umbral).columns

\* a column whose null fraction equals the threshold was kept while an
\* all-null column beside it was removed
C2_Witness ==
    /\ pc \in {"final:columnas", "limpieza:sin_nulos", "pre:sin_nulos"}
    /\ umbral = Ratio(1, 2)
    /\ NRows(Handed) = 2 /\ NCols(Handed) = 2
    /\ NullCount(Handed, 1) = 1
    /\ NullCount(Handed, 2) = 2
    /\ (IF pc = "limpieza:sin_nulos" THEN detalles_df ELSE df).rows
           = [i \in 1..2 |-> <<Handed.rows[i][1]>>]

(***************************************************************************)
(* Column labels and literals of the scripts.                              *)
(***************************************************************************)
EVENT_ID == <<"E", "V", "E", "N", "T", "_", "I", "D">>
ES_EVENT_ID_DUPLICADO == <<"E", "S", "_", "E", "V", "E", "N", "T", "_", "I", "D", "_", "D", "U", "P", "L", "I", "C", "A", "D", "O">>
BEGIN_DATE == <<"B", "E", "G", "I", "N", "_", "D", "A", "T", "E">>
END_DATE == <<"E", "N", "D", "_", "D", "A", "T", "E">>
BEGIN_LAT == <<"B", "E", "G", "I", "N", "_", "L", "A", "T">>
BEGIN_LON == <<"B", "E", "G", "I", "N", "_", "L", "O", "N">>
EVENT_TYPE == <<"E", "V", "E", "N", "T", "_", "T", "Y", "P", "E">>
MAGNITUDE == <<"M", "A", "G", "N", "I", "T", "U", "D", "E">>
DAMAGE_PROPERTY == <<"D", "A", "M", "A", "G", "E", "_", "P", "R", "O", "P", "E", "R", "T", "Y">>
DAMAGE_CROPS == <<"D", "A", "M", "A", "G", "E", "_", "C", "R", "O", "P", "S">>
FATALITY_AGE == <<"F", "A", "T", "A", "L", "I", "T", "Y", "_", "A", "G", "E">>
FATALITY_SEX == <<"F", "A", "T", "A", "L", "I", "T", "Y", "_", "S", "E", "X">>
FATALITY_LOCATION == <<"F", "A", "T", "A", "L", "I", "T", "Y", "_", "L", "O", "C", "A", "T", "I", "O", "N">>
FATALITY_ID == <<"F", "A", "T", "A", "L", "I", "T", "Y", "_", "I", "D">>
LOCATION == <<"L", "O", "C", "A", "T", "I", "O", "N">>
LAT2 == <<"L", "A", "T", "2">>
LON2 == <<"L", "O", "N", "2">>
STATE_FIPS == <<"S", "T", "A", "T", "E", "_", "F", "I", "P", "S">>
CZ_FIPS == <<"C", "Z", "_", "F", "I", "P", "S">>
DATA_SOURCE == <<"D", "A", "T", "A", "_", "S", "O", "U", "R", "C", "E">>
WFO == <<"W", "F", "O">>
CATEGORY == <<"C", "A", "T", "E", "G", "O", "R", "Y">>
DAMAGE_CRPS == <<"D", "A", "M", "A", "G", "E", "_", "C", "R", "P", "U+00A8", "S">>     \* the label written at line 104 of the cleaner
Desconocido == <<"D", "e", "s", "c", "o", "n", "o", "c", "i", "d", "o">>
unknown == <<"u", "n", "k", "n", "o", "w", "n">>

(***************************************************************************)
(* Comparisons of cells: numbers by value, strings by code point.          *)
(***************************************************************************)
RECURSIVE Pow10(_)
Pow10(n) == IF n <= 0 THEN 1 ELSE 10 * Pow10(n - 1)

FloatLess(x, y) ==
    LET e0 == IF x.e < y.e THEN x.e ELSE y.e
    IN  x.m * Pow10(x.e - e0) < y.m * Pow10(y.e - e0)

CodeOrder == <<" ", "-", ".", "0", "1", "2", "3", "4", "5", "6", "7", "8", "9">>
                 \o UpperAscii \o <<"_">> \o LowerAsciiSeq
CodeRank(c) == CHOOSE i \in 1..Len(CodeOrder) : CodeOrder[i] = c

RECURSIVE StrLess(_, _)
StrLess(a, b) ==
    IF b = <<>> THEN FALSE
    ELSE IF a = <<>> THEN TRUE
    ELSE IF Head(a) = Head(b) THEN StrLess(Tail(a), Tail(b))
    ELSE CodeRank(Head(a)) < CodeRank(Head(b))

\* x < y of two cells; comparing a string with a number is a TypeError, and
\* any comparison with NaN is False
Comparable(x, y) == IsNull(x) \/ IsNull(y) \/ x.k = y.k
CellLess(x, y) ==
    IF IsNull(x) \/ IsNull(y) THEN FALSE
    ELSE IF IsFloat(x) THEN FloatLess(x, y) ELSE StrLess(x.s, y.s)

\* Series.duplicated(keep=False) on the key column
Duplicated(t, key, i) == \E o \in Rows(t) : o # i /\ Cell(t, o, key) = Cell(t, i, key)

(***************************************************************************)
(* "Limpieza final.py"                                                     *)
(***************************************************************************)
UmbralFinal == Ratio(9, 10)       \* umbral: float = 0.9

marcar_duplicados_event_id(t) ==
    IF HasCol(t, EVENT_ID)
    THEN SetCol(t, ES_EVENT_ID_DUPLICADO, [i \in Rows(t) |-> Bool(Duplicated(t, EVENT_ID, i))])
    ELSE t

\* df[col].dtype in ['float64', 'int64']
EsNumerica(t, j) == DType(t, j) \in {"float64", "int64"}

\* a fill that ignores the dtype
final_manejar_nulos_sin_tipo(t) ==
    Table(t.columns,
          [i \in Rows(t) |-> [j \in Cols(t) |->
              IF IsNull(t.rows[i][j]) THEN Str(Desconocido) ELSE t.rows[i][j]]])

\* manejar_nulos of "Limpieza final.py"
final_manejar_nulos(t) ==
    Table(t.columns,
          [i \in Rows(t) |-> [j \in Cols(t) |->
              IF ~IsNull(t.rows[i][j]) THEN t.rows[i][j]
              ELSE IF EsNumerica(t, j) THEN Zero ELSE Str(Desconocido)]])

ColumnasConNulos(t) == {j \in Cols(t) : NullCount(t, j) > 0}

\* rows selected by a comparison between one column and a bound or a column
FueraDeRango(t, name, lo, hi) ==
    {i \in Rows(t) : CellLess(Cell(t, i, name), lo) \/ CellLess(hi, Cell(t, i, name))}
FechasInconsistentes(t) ==
    {i \in Rows(t) : CellLess(Cell(t, i, END_DATE), Cell(t, i, BEGIN_DATE))}

Lat90 == Float(9, 1)
Lon180 == Float(18, 1)
Neg(x) == Float(0 - x.m, x.e)

\* the comparisons of validar_consistencia that raise on mixed types
validar_falla(t) ==
    \/ /\ HasCol(t, BEGIN_DATE) /\ HasCol(t, END_DATE)
       /\ \E i \in Rows(t) : ~Comparable(Cell(t, i, BEGIN_DATE), Cell(t, i, END_DATE))
    \/ /\ HasCol(t, BEGIN_LAT) /\ HasCol(t, BEGIN_LON)
       /\ \E i \in Rows(t) : ~Comparable(Cell(t, i, BEGIN_LAT), Lat90)
                               \/ ~Comparable(Cell(t, i, BEGIN_LON), Lon180)

\* what validar_consistencia logs
validar_consistencia(t) ==
    (IF HasCol(t, BEGIN_DATE) /\ HasCol(t, END_DATE)
     THEN <<Info("Registros con fechas inconsistentes", Cardinality(FechasInconsistentes(t)))>>
     ELSE <<Warning("No se encontraron columnas BEGIN_DATE y END_DATE", {})>>)
    \o
    (IF HasCol(t, BEGIN_LAT) /\ HasCol(t, BEGIN_LON)
     THEN <<Info("Registros con latitudes fuera de rango",
                 Cardinality(FueraDeRango(t, BEGIN_LAT, Neg(Lat90), Lat90))),
            Info("Registros con longitudes fuera de rango",
                 Cardinality(FueraDeRango(t, BEGIN_LON, Neg(Lon180), Lon180)))>>
     ELSE <<>>)

FinalStep(from, to) ==
    /\ pc = from
    /\ pc' = to
    /\ UNCHANGED <<value, col, result, tables, umbral>>

\* cargar_datos: read the file, or log the error and re-raise
FinalCargarDatos ==
    /\ pc = "final:inicio"
    /\ IF fs.limpio = NoFile
       THEN /\ FinalStep("final:inicio", "final:abortado")
            /\ log' = Append(log, Error("Error al cargar el archivo", {}))
            /\ UNCHANGED <<df, fs>>
       ELSE /\ FinalStep("final:inicio", "final:cargado")
            /\ df' = ReadCsv(fs.limpio)
            /\ log' = Append(log, Info("Archivo cargado", {}))
            /\ UNCHANGED fs

MarcarDuplicados ==
    /\ FinalStep("final:columnas", "final:marcado")
    /\ df' = marcar_duplicados_event_id(df)
    /\ log' = Append(log, IF HasCol(df, EVENT_ID)
                          THEN Info("Columna ES_EVENT_ID_DUPLICADO creada", {})
                          ELSE Warning("La columna EVENT_ID no se encuentra", {}))
    /\ UNCHANGED fs

RECURSIVE LogFills(_, _)
\* one log line per filled column, in column order
LogFills(t, j) ==
    IF j > NCols(t) THEN <<>>
    ELSE (IF j \in ColumnasConNulos(t)
          THEN <<Info("Valores nulos reemplazados",
                      <<t.columns[j], IF EsNumerica(t, j) THEN Zero ELSE Str(Desconocido)>>)>>
          ELSE <<>>) \o LogFills(t, j + 1)

FinalManejarNulos ==
    /\ FinalStep("final:marcado", "final:nulos")
    /\ df' = final_manejar_nulos(df)
    /\ log' = log \o LogFills(df, 1)
    /\ UNCHANGED fs

ValidarConsistencia ==
    /\ pc = "final:nulos"
    /\ IF validar_falla(df)
       THEN FinalStep("final:nulos", "final:TypeError") /\ UNCHANGED log
       ELSE FinalStep("final:nulos", "final:validado")
            /\ log' = log \o validar_consistencia(df)
    /\ UNCHANGED <<df, fs>>

GuardarDatos ==
    /\ FinalStep("final:validado", "final:guardado")
    /\ fs' = [fs EXCEPT !.final = WriteCsv(df)]
    /\ log' = Append(log, Info("Archivo limpio guardado", {}))
    /\ UNCHANGED df

LimpiezaFinal ==
    \/ FinalCargarDatos \/ ManejarColumnasConNulos \/ MarcarDuplicados
    \/ FinalManejarNulos \/ ValidarConsistencia \/ GuardarDatos

MaxFinalRows == 2    \* most rows of an explored input of Limpieza final

\* every file with the given header, at most n rows, column j drawn from F[j]
FilesOver(header, F, n) ==
    {Table(header, rows) :
        rows \in SeqsUpTo({r \in [1..Len(header) -> UNION {F[j] : j \in 1..Len(F)}] :
                              \A j \in 1..Len(header) : r[j] \in F[j]}, n)}

Date15 == <<"2", "0", "2", "4", "-", "0", "3", "-", "1", "5">>
Date16 == <<"2", "0", "2", "4", "-", "0", "3", "-", "1", "6">>
FinalFiles ==
    FilesOver(<<EVENT_ID, EVENT_TYPE, MAGNITUDE>>,
              <<{<<"1">>, <<"2">>}, {<<>>, <<"H", "a", "i", "l">>}, {<<>>, <<"5">>}>>, MaxFinalRows)
    \cup FilesOver(<<BEGIN_LAT, BEGIN_LON>>,
              <<{<<>>, <<"4", "5">>, <<"9", "1">>, <<"x">>}, {<<>>, <<"-", "1", "8", "1">>}>>,
              MaxFinalRows)
    \cup FilesOver(<<BEGIN_DATE, END_DATE>>,
              <<{<<>>, Date15, Date16}, {<<>>, Date15, Date16}>>, MaxFinalRows)

InitFinal ==
    /\ pc = "final:inicio"
    /\ value = None /\ col = <<>> /\ result = None
    /\ detalles_df = None /\ fatalidades_df = None /\ lugares_df = None /\ master_df = None
    /\ df = None
    /\ umbral = UmbralFinal
    /\ log = <<>>
    /\ \E file \in FinalFiles \cup {NoFile} : fs = [NoFiles EXCEPT !.limpio = file]

SpecFinal == InitFinal /\ [][LimpiezaFinal]_vars

(***************************************************************************)
(* Value-fill policy, stated on the step of main that calls manejar_nulos. *)
(***************************************************************************)
FillStep == pc = "final:marcado" /\ pc' = "final:nulos"

NumericColumn(t, j) == \A i \in Rows(t) : t.rows[i][j] \in {NaN, None} \/ t.rows[i][j].k = "float"

\* after is before with every null of a numeric column replaced by 0 and every
\* other null by the token; nothing else differs and no null is left
Filled(before, after, token) ==
    /\ after.columns = before.columns
    /\ NRows(after) = NRows(before)
    /\ \A i \in Rows(before) : \A j \in Cols(before) :
          /\ after.rows[i][j] \notin {NaN, None}
          /\ after.rows[i][j] =
                IF before.rows[i][j] \notin {NaN, None} THEN before.rows[i][j]
                ELSE IF NumericColumn(before, j) THEN Float(0, 0) ELSE Str(token)

\* C3 as stated: after manejar_nulos no cell is null, nulls of numeric columns
\* became 0, all other nulls became "unknown", non-null cells are unchanged.
C3_FillUnknown == [][FillStep => Filled(df, df', unknown)]_vars

\* C3 amended: after manejar_nulos no cell is null, nulls of numeric columns
\* became 0, all other nulls became the literal token "Desconocido", and every
\* cell that was non-null is unchanged.
C3_FillPolicy == [][FillStep => Filled(df, df', Desconocido)]_vars

\* a row with a missing event type and a missing magnitude was filled
C3_Witness ==
    /\ pc = "final:nulos"
    /\ fs.limpio # NoFile
    /\ fs.limpio.rows = <<<<<<"1">>, <<>>, <<>>>>, <<<<"1">>, <<"H", "a", "i", "l">>, <<"5">>>>>>
    /\ df.rows[1] = <<Float(1, 0), Str(Desconocido), Zero, Bool(TRUE)>>

(***************************************************************************)
(* "Chequeo Archivo final.py": validate_and_report.  The report file is    *)
(* modelled by the entries written to it, in the order of the sections.    *)
(***************************************************************************)
HeadN == 10          \* .head(10)

\* the rows of rs (ascending positions) after the first n are dropped
HeadRows(t, rs, n) ==
    LET Keep(i) == i \in rs /\ Cardinality({o \in rs : o < i}) < n
    IN  KeepIdx(t.rows, Keep, 1)

\* df.duplicated(subset=['EVENT_ID']): the key occurred in an earlier row
DuplicatedFirst(t, key, i) == \E o \in 1..(i - 1) : Cell(t, o, key) = Cell(t, i, key)

\* duplicados_parciales: the rows whose key occurs more than once
DuplicadosParciales(t) == {i \in Rows(t) : Duplicated(t, EVENT_ID, i)}

\* groupby('EVENT_ID') over the partial duplicates: rows with a null key belong
\* to no group
Grupos(t) ==
    {{i \in DuplicadosParciales(t) : Cell(t, i, EVENT_ID) = k} :
        k \in {Cell(t, i, EVENT_ID) : i \in {r \in DuplicadosParciales(t) :
                                               ~IsNull(Cell(t, r, EVENT_ID))}}}

\* SeriesGroupBy.nunique() of one group: the distinct non-null values
NUnique(t, g, j) == Cardinality({t.rows[i][j] : i \in {r \in g : ~IsNull(t.rows[r][j])}})

\* lines 50-53: .max() of no group at all is NaN, and NaN > 1 is False
ColumnasConDiferencias(t) ==
    LET Differs(j) == \E g \in Grupos(t) : NUnique(t, g, j) > 1
    IN  KeepIdx(t.columns, Differs, 1)

\* line 56: groupby(...).filter(lambda x: len(x) > 1).head(10)
EjemploDuplicados(t) == HeadRows(t, UNION Grupos(t), HeadN)

Negativos(t, name) == {i \in Rows(t) : CellLess(Cell(t, i, name), Zero)}

\* the comparisons of section 4 that raise on a column of strings
chequeo_falla(t) ==
    \/ /\ HasCol(t, DAMAGE_CROPS)
       /\ \E i \in Rows(t) : ~Comparable(Cell(t, i, DAMAGE_CROPS), Zero)
    \/ /\ HasCol(t, BEGIN_LAT) /\ HasCol(t, BEGIN_LON)
       /\ \E i \in Rows(t) : ~Comparable(Cell(t, i, BEGIN_LAT), Lat90)
                               \/ ~Comparable(Cell(t, i, BEGIN_LON), Lon180)

\* select_dtypes(include=['number'])
ColumnasNumericas(t) == {j \in Cols(t) : EsNumerica(t, j)}

Present(t, j) == {i \in Rows(t) : ~IsNull(t.rows[i][j])}
Minimum(t, j) ==
    IF Present(t, j) = {} THEN NaN
    ELSE t.rows[CHOOSE i \in Present(t, j) :
                   \A o \in Present(t, j) : ~FloatLess(t.rows[o][j], t.rows[i][j])][j]
Maximum(t, j) ==
    IF Present(t, j) = {} THEN NaN
    ELSE t.rows[CHOOSE i \in Present(t, j) :
                   \A o \in Present(t, j) : ~FloatLess(t.rows[i][j], t.rows[o][j])][j]

\* sections 1 to 3 of the report
InformeHastaDuplicados(t) ==
    [dimensiones |-> <<NRows(t), NCols(t)>>,
     columnas    |-> t.columns,
     nulos       |-> {<<t.columns[j], NullFraction(t, j)>> : j \in ColumnasConNulos(t)},
     duplicados  |-> IF HasCol(t, EVENT_ID)
                     THEN Cardinality({i \in Rows(t) : DuplicatedFirst(t, EVENT_ID, i)})
                     ELSE "Columna 'EVENT_ID' no encontrada",
     parciales   |-> IF HasCol(t, EVENT_ID) THEN Cardinality(DuplicadosParciales(t))
                     ELSE None,
     columnas_con_diferencias |->
                     IF HasCol(t, EVENT_ID) /\ DuplicadosParciales(t) # {}
                     THEN ColumnasConDiferencias(t) ELSE None,
     ejemplo     |-> IF HasCol(t, EVENT_ID) /\ DuplicadosParciales(t) # {}
                     THEN EjemploDuplicados(t) ELSE None]

\* sections 4 and 5 (of describe(): count, min and max)
InformeRangoYEstadisticas(t) ==
    [crops_negativos |-> IF HasCol(t, DAMAGE_CROPS)
                         THEN Cardinality(Negativos(t, DAMAGE_CROPS)) ELSE None,
     coordenadas_invalidas |->
                     IF HasCol(t, BEGIN_LAT) /\ HasCol(t, BEGIN_LON)
                     THEN <<Cardinality(FueraDeRango(t, BEGIN_LAT, Neg(Lat90), Lat90)),
                            Cardinality(FueraDeRango(t, BEGIN_LON, Neg(Lon180), Lon180))>>
                     ELSE None,
     estadisticas |-> {<<t.columns[j], Cardinality(Present(t, j)), Minimum(t, j), Maximum(t, j)>> :
                          j \in ColumnasNumericas(t)},
     cierre      |-> "El archivo contiene problemas."]

RecordMerge(a, b) ==
    [f \in DOMAIN a \cup DOMAIN b |-> IF f \in DOMAIN a THEN a[f] ELSE b[f]]

\* the script runs on its own, or after the cleaner exported its table
ValidateAndReport ==
    /\ pc \in {"chequeo:inicio", "limpieza:exportado"}
    /\ IF fs.limpio = NoFile
       THEN /\ pc' = "chequeo:retorno_sin_informe"
            /\ log' = Append(log, Error("Error al cargar el archivo", {}))
            /\ UNCHANGED <<df, fs>>
       ELSE LET t == ReadCsv(fs.limpio)
            IN  /\ df' = t
                /\ IF chequeo_falla(t)
                   THEN /\ pc' = "chequeo:TypeError"
                        /\ fs' = [fs EXCEPT !.informe = InformeHastaDuplicados(t)]
                        /\ log' = Append(log, Info("Archivo cargado para validacion", {}))
                   ELSE /\ pc' = "chequeo:informe"
                        /\ fs' = [fs EXCEPT !.informe =
                                     RecordMerge(InformeHastaDuplicados(t),
                                                 InformeRangoYEstadisticas(t))]
                        /\ log' = log \o <<Info("Archivo cargado para validacion", {}),
                                           Info("Informe de validacion generado", {})>>
    /\ UNCHANGED <<value, col, result, tables, umbral>>

MaxChequeoRows == 3  \* most rows of an explored input of the report script

ChequeoFiles ==
    FilesOver(<<EVENT_ID, FATALITY_AGE, FATALITY_SEX>>,
              <<{<<>>, <<"1">>, <<"2">>}, {<<>>, <<"3", "0">>, <<"4", "0">>}, {<<"M">>}>>,
              MaxChequeoRows)
    \cup FilesOver(<<DAMAGE_CROPS, BEGIN_LAT, BEGIN_LON>>,
              <<{<<"-", "2">>, <<"0">>, <<"x">>}, {<<"4", "5">>, <<"9", "1">>},
                {<<"-", "1", "8", "1">>}>>,
              MaxChequeoRows)

InitChequeo ==
    /\ pc = "chequeo:inicio"
    /\ value = None /\ col = <<>> /\ result = None
    /\ detalles_df = None /\ fatalidades_df = None /\ lugares_df = None /\ master_df = None
    /\ df = None
    /\ umbral = None
    /\ log = <<>>
    /\ \E file \in ChequeoFiles \cup {NoFile} : fs = [NoFiles EXCEPT !.limpio = file]

NextChequeo == ValidateAndReport

SpecChequeo == InitChequeo /\ [][NextChequeo]_vars

(***************************************************************************)
(* The duplicate analyzer, stated on the table read from the file.         *)
(***************************************************************************)
Leida == ReadCsv(fs.limpio)

\* the groups of two or more rows that share one EVENT_ID value
KeyGroups(t) ==
    {g \in {{i \in Rows(t) : Cell(t, i, EVENT_ID) = Cell(t, r, EVENT_ID)} :
               r \in {x \in Rows(t) : Cell(t, x, EVENT_ID) \notin {NaN, None}}} :
        Cardinality(g) >= 2}

\* some cell of the group differs from another one, a null against a value included
NonConstant(t, g, j) == \E i, o \in g : t.rows[i][j] # t.rows[o][j]

\* C8: a column is listed in columnas_con_diferencias if and only if some
\* group of rows sharing one EVENT_ID holds non-constant values in it (a null
\* beside a non-null value counts as non-constant); the key column is never
\* listed.
C8_ColumnsWithDifferences ==
    pc = "chequeo:informe" /\ HasCol(Leida, EVENT_ID) /\ KeyGroups(Leida) # {} =>
        /\ \A j \in Cols(Leida) :
              (\E n \in 1..Len(fs.informe.columnas_con_diferencias) :
                    fs.informe.columnas_con_diferencias[n] = Leida.columns[j])
              <=> \E g \in KeyGroups(Leida) : NonConstant(Leida, g, j)
        /\ \A n \in 1..Len(fs.informe.columnas_con_diferencias) :
              fs.informe.columnas_con_diferencias[n] # EVENT_ID

(***************************************************************************)
(* "limpieza de datos NOAA 2024.py": the cleaning functions.               *)
(***************************************************************************)
UmbralLimpieza == Ratio(1, 2)     \* threshold: float = 0.5
MinusOne == Float(0 - 1, 0)       \* fillna(-1)

BEGIN_YEARMONTH == <<"B", "E", "G", "I", "N", "_", "Y", "E", "A", "R", "M", "O", "N", "T", "H">>
BEGIN_DAY == <<"B", "E", "G", "I", "N", "_", "D", "A", "Y">>
BEGIN_TIME == <<"B", "E", "G", "I", "N", "_", "T", "I", "M", "E">>
END_YEARMONTH == <<"E", "N", "D", "_", "Y", "E", "A", "R", "M", "O", "N", "T", "H">>
END_DAY == <<"E", "N", "D", "_", "D", "A", "Y">>
END_TIME == <<"E", "N", "D", "_", "T", "I", "M", "E">>

\* the columns that limpiar_detalles and limpiar_fatalidades index without a test
detalles_falla(t) == ~HasCol(t, DAMAGE_PROPERTY) \/ ~HasCol(t, DAMAGE_CROPS)
fatalidades_falla(t) == ~HasCol(t, FATALITY_AGE) \/ ~HasCol(t, FATALITY_SEX)

\* .fillna('0').apply(convertir_damage)
DamageCell(c) == limpieza_convertir_damage(IF IsNull(c) THEN Str(<<"0">>) ELSE c)

limpiar_detalles(t) ==
    LET p == MapCol(t, ColIdx(t, DAMAGE_PROPERTY), DamageCell)
        c == MapCol(p, ColIdx(p, DAMAGE_CROPS), DamageCell)
    IN  DropLabels(c, {STATE_FIPS, CZ_FIPS, DATA_SOURCE, WFO, CATEGORY})

limpiar_fatalidades(t) ==
    LET FillAge(c) == IF IsNull(c) THEN MinusOne ELSE c
        FillSex(c) == IF IsNull(c) THEN Str(Desconocido) ELSE c
        a == MapCol(t, ColIdx(t, FATALITY_AGE), FillAge)
        x == MapCol(a, ColIdx(a, FATALITY_SEX), FillSex)
        j == ColIdx(x, FATALITY_LOCATION)
        Clean(c) == Str(Lower(Strip(PyStr(x, j, c))))
    IN  IF HasCol(x, FATALITY_LOCATION) THEN MapCol(x, j, Clean) ELSE x

\* the column drop of limpiar_lugares without its drop_duplicates
limpiar_lugares_sin_dedup(t) == DropLabels(t, {LAT2, LON2})

limpiar_lugares(t) ==
    LET d == DropLabels(t, {LAT2, LON2})
        First(i) == ~DuplicatedFirst(d, EVENT_ID, i)
    IN  IF HasCol(d, EVENT_ID) THEN Table(d.columns, KeepIdx(d.rows, First, 1)) ELSE d

\* lambda x: x if x >= 0 else 0 (a null is not >= 0)
Clamp(c) == IF IsNull(c) \/ CellLess(c, Zero) THEN Zero ELSE c

\* lines 101-104: the second assignment writes the label DAMAGE_CRP"S
fuera_de_rango(t) ==
    LET p == IF HasCol(t, DAMAGE_PROPERTY)
             THEN SetCol(t, DAMAGE_PROPERTY, [i \in Rows(t) |-> Clamp(Cell(t, i, DAMAGE_PROPERTY))])
             ELSE t
    IN  IF HasCol(p, DAMAGE_CROPS)
        THEN SetCol(p, DAMAGE_CRPS, [i \in Rows(p) |-> Clamp(Cell(p, i, DAMAGE_CROPS))])
        ELSE p

(***************************************************************************)
(* DataFrame.merge(right, on=key, how='left'): the left rows in order,     *)
(* each once per right row of equal key (null keys are equal to each       *)
(* other), or once with nulls when there is none.  A label other than the  *)
(* key carried by both sides gets the suffixes _x and _y.                  *)
(***************************************************************************)
Labels(t) == {t.columns[j] : j \in Cols(t)}

MergeColumns(l, r, key) ==
    LET both == (Labels(l) \cap Labels(r)) \ {key}
        NonKey(j) == r.columns[j] # key
        rc == KeepIdx(r.columns, NonKey, 1)
    IN  [j \in Cols(l) |-> IF l.columns[j] \in both THEN l.columns[j] \o <<"_", "x">>
                           ELSE l.columns[j]]
        \o [j \in 1..Len(rc) |-> IF rc[j] \in both THEN rc[j] \o <<"_", "y">> ELSE rc[j]]

\* the cells of row i of r outside the key column
RightPart(r, key, i) ==
    LET NonKey(j) == r.columns[j] # key IN KeepIdx(r.rows[i], NonKey, 1)

Matches(l, r, key, i) == {o \in Rows(r) : Cell(r, o, key) = Cell(l, i, key)}

RECURSIVE RightRows(_, _, _, _)
\* the right parts of the rows in S at positions >= o, in order
RightRows(r, key, S, o) ==
    IF o > NRows(r) THEN <<>>
    ELSE (IF o \in S THEN <<RightPart(r, key, o)>> ELSE <<>>) \o RightRows(r, key, S, o + 1)

Nulls(n) == [j \in 1..n |-> NaN]

RECURSIVE InnerRows(_, _, _, _)
InnerRows(l, r, key, i) ==
    IF i > NRows(l) THEN <<>>
    ELSE LET right == RightRows(r, key, Matches(l, r, key, i), 1)
         IN  [n \in 1..Len(right) |-> l.rows[i] \o right[n]] \o InnerRows(l, r, key, i + 1)

\* a join that keeps matched rows only
InnerMerge(l, r, key) == Table(MergeColumns(l, r, key), InnerRows(l, r, key, 1))

RECURSIVE LeftRows(_, _, _, _)
LeftRows(l, r, key, i) ==
    IF i > NRows(l) THEN <<>>
    ELSE LET right == RightRows(r, key, Matches(l, r, key, i), 1)
             mine  == IF right = <<>> THEN <<l.rows[i] \o Nulls(NCols(r) - 1)>>
                      ELSE [n \in 1..Len(right) |-> l.rows[i] \o right[n]]
         IN  mine \o LeftRows(l, r, key, i + 1)

LeftMerge(l, r, key) == Table(MergeColumns(l, r, key), LeftRows(l, r, key, 1))

\* merge raises when a side lacks the key, or when one key column holds text
\* and the other numbers
merge_falla(l, r, key) ==
    \/ ~HasCol(l, key) \/ ~HasCol(r, key)
    \/ (DType(l, ColIdx(l, key)) = "object") # (DType(r, ColIdx(r, key)) = "object")

(***************************************************************************)
(* convertir_tiempo: pd.to_datetime(text, format=..., errors='coerce').    *)
(* The format is matched as the regular expression strptime builds for it: *)
(* the first alternative of each directive that lets the rest match is     *)
(* taken, and text left over after the match is an error (NaT).            *)
(***************************************************************************)
NonZero == Digits \ {"0"}

\* %m  1[0-2] | 0[1-9] | [1-9]        (the lengths that match, in order)
MonthAlts(s) ==
    (IF Len(s) >= 2 /\ s[1] = "1" /\ s[2] \in {"0", "1", "2"} THEN <<2>> ELSE <<>>)
    \o (IF Len(s) >= 2 /\ s[1] = "0" /\ s[2] \in NonZero THEN <<2>> ELSE <<>>)
    \o (IF Len(s) >= 1 /\ s[1] \in NonZero THEN <<1>> ELSE <<>>)

\* %d  3[0-1] | [1-2]\d | 0[1-9] | [1-9] | " "[1-9]
DayAlts(s) ==
    (IF Len(s) >= 2 /\ s[1] = "3" /\ s[2] \in {"0", "1"} THEN <<2>> ELSE <<>>)
    \o (IF Len(s) >= 2 /\ s[1] \in {"1", "2"} /\ s[2] \in Digits THEN <<2>> ELSE <<>>)
    \o (IF Len(s) >= 2 /\ s[1] = "0" /\ s[2] \in NonZero THEN <<2>> ELSE <<>>)
    \o (IF Len(s) >= 1 /\ s[1] \in NonZero THEN <<1>> ELSE <<>>)
    \o (IF Len(s) >= 2 /\ s[1] = " " /\ s[2] \in NonZero THEN <<2>> ELSE <<>>)

\* %H  2[0-3] | [0-1]\d | \d
HourAlts(s) ==
    (IF Len(s) >= 2 /\ s[1] = "2" /\ s[2] \in {"0", "1", "2", "3"} THEN <<2>> ELSE <<>>)
    \o (IF Len(s) >= 2 /\ s[1] \in {"0", "1"} /\ s[2] \in Digits THEN <<2>> ELSE <<>>)
    \o (IF Len(s) >= 1 /\ s[1] \in Digits THEN <<1>> ELSE <<>>)

\* %M  [0-5]\d | \d
MinuteAlts(s) ==
    (IF Len(s) >= 2 /\ s[1] \in {"0", "1", "2", "3", "4", "5"} /\ s[2] \in Digits
     THEN <<2>> ELSE <<>>)
    \o (IF Len(s) >= 1 /\ s[1] \in Digits THEN <<1>> ELSE <<>>)

\* two directives in a row: the texts they take, or no match; the match must
\* end where s ends
TwoFields(s, A(_), B(_)) ==
    LET Rest(n) == SubSeq(s, n + 1, Len(s))
        Ok(n)   == B(Rest(A(s)[n])) # <<>>
        first   == KeepIdx(A(s), Ok, 1)
    IN  IF first = <<>> THEN [ok |-> FALSE]
        ELSE LET a == first[1]
                 b == B(Rest(a))[1]
             IN  IF a + b # Len(s) THEN [ok |-> FALSE]
                 ELSE [ok |-> TRUE, a |-> DigitsToInt(Strip(SubSeq(s, 1, a))),
                       b |-> DigitsToInt(Strip(SubSeq(s, a + 1, a + b)))]

LeapYear(y) == (y % 4 = 0 /\ y % 100 # 0) \/ y % 400 = 0
DaysInMonth(y, m) ==
    IF m = 2 THEN (IF LeapYear(y) THEN 29 ELSE 28)
    ELSE IF m \in {4, 6, 9, 11} THEN 30 ELSE 31

\* the whole years a nanosecond timestamp can hold
MinYear == 1678
MaxYear == 2261

\* format '%Y%m%d'
ParseDate(s) ==
    IF Len(s) < 4 \/ \E n \in 1..4 : s[n] \notin Digits THEN NaN
    ELSE LET y  == DigitsToInt(SubSeq(s, 1, 4))
             md == TwoFields(SubSeq(s, 5, Len(s)), MonthAlts, DayAlts)
         IN  IF md.ok /\ md.b <= DaysInMonth(y, md.a) /\ y >= MinYear /\ y <= MaxYear
             THEN DateCell(y, md.a, md.b) ELSE NaN

\* format '%H%M', then .dt.time
ParseTime(s) ==
    LET hm == TwoFields(s, HourAlts, MinuteAlts)
    IN  IF hm.ok THEN TimeCell(hm.a, hm.b) ELSE NaN

\* one call of convertir_tiempo with output_format=None
convertir_tiempo(t, year_month_col, day_col, time_col, prefix) ==
    LET ym == ColIdx(t, year_month_col)
        dy == ColIdx(t, day_col)
        d  == IF HasCol(t, year_month_col) /\ HasCol(t, day_col)
              THEN SetCol(t, prefix \o <<"_", "D", "A", "T", "E">>,
                          [i \in Rows(t) |->
                              ParseDate(PyStr(t, ym, t.rows[i][ym])
                                        \o ZFill(PyStr(t, dy, t.rows[i][dy]), 2))])
              ELSE t
        tm == ColIdx(d, time_col)
    IN  IF HasCol(d, time_col)
        THEN SetCol(d, prefix \o <<"_", "T", "I", "M", "E">>,
                    [i \in Rows(d) |-> ParseTime(ZFill(PyStr(d, tm, d.rows[i][tm]), 4))])
        ELSE d

LogTiempo(t, year_month_col, day_col, time_col) ==
    (IF HasCol(t, year_month_col) /\ HasCol(t, day_col)
     THEN <<Info("Columnas combinadas y convertidas a datetime", <<year_month_col, day_col>>)>>
     ELSE <<>>)
    \o (IF HasCol(t, time_col)
        THEN <<Info("Columna convertida a formato de hora", time_col)>> ELSE <<>>)

\* informe: the null share of every column, the range of every numeric
\* column and the distinct values of every text column, all of it logged
EsTexto(t, j) ==
    DType(t, j) = "object" /\ \A i \in Rows(t) : ~IsDate(t.rows[i][j])
informe(t) ==
    <<Info("Generando informe...", {}),
      Info("Porcentaje de valores nulos", {<<t.columns[j], NullFraction(t, j)>> : j \in Cols(t)}),
      Info("Rango de valores",
           {<<t.columns[j], Minimum(t, j), Maximum(t, j)>> : j \in ColumnasNumericas(t)}),
      Info("valores unicos",
           {<<t.columns[j], Cardinality({t.rows[i][j] : i \in Present(t, j)})>> :
               j \in {c \in Cols(t) : EsTexto(t, c)}})>>

(***************************************************************************)
(* main of the cleaner, one action per statement.                          *)
(***************************************************************************)
CleanerStep(from, to) ==
    /\ pc = from
    /\ pc' = to
    /\ UNCHANGED <<value, col, result, df, umbral>>

Cargado(file) == IF file = NoFile THEN Table(<<>>, <<>>) ELSE ReadCsv(file)
LogCarga(file, what) ==
    IF file = NoFile THEN Error("Error leyendo", what) ELSE Info("cargado correctamente", what)

\* lines 209-216: the three loads, then the test that ends the run
CargarCsv ==
    /\ pc = "limpieza:inicio"
    /\ detalles_df' = Cargado(fs.detalles)
    /\ fatalidades_df' = Cargado(fs.fatalidades)
    /\ lugares_df' = Cargado(fs.lugares)
    /\ log' = log \o <<LogCarga(fs.detalles, "detalles"), LogCarga(fs.fatalidades, "fatalidades"),
                       LogCarga(fs.lugares, "lugares")>>
    /\ IF Empty(detalles_df') \/ Empty(fatalidades_df') \/ Empty(lugares_df')
       THEN CleanerStep("limpieza:inicio", "limpieza:SystemExit")
       ELSE CleanerStep("limpieza:inicio", "limpieza:cargados")
    /\ UNCHANGED <<fs, master_df>>

LimpiarDetalles ==
    /\ pc = "limpieza:cargados"
    /\ IF detalles_falla(detalles_df)
       THEN CleanerStep("limpieza:cargados", "limpieza:KeyError") /\ UNCHANGED detalles_df
       ELSE CleanerStep("limpieza:cargados", "limpieza:detalles")
            /\ detalles_df' = limpiar_detalles(detalles_df)
    /\ UNCHANGED <<fs, fatalidades_df, lugares_df, master_df, log>>

LimpiarFatalidades ==
    /\ pc = "limpieza:detalles"
    /\ IF fatalidades_falla(fatalidades_df)
       THEN CleanerStep("limpieza:detalles", "limpieza:KeyError") /\ UNCHANGED fatalidades_df
       ELSE CleanerStep("limpieza:detalles", "limpieza:fatalidades")
            /\ fatalidades_df' = limpiar_fatalidades(fatalidades_df)
    /\ UNCHANGED <<fs, detalles_df, lugares_df, master_df, log>>

LimpiarLugares ==
    /\ CleanerStep("limpieza:fatalidades", "limpieza:limpios")
    /\ lugares_df' = limpiar_lugares(lugares_df)
    /\ UNCHANGED <<fs, detalles_df, fatalidades_df, master_df, log>>

CorregirFueraDeRango ==
    /\ CleanerStep("limpieza:sin_nulos", "limpieza:en_rango")
    /\ detalles_df' = fuera_de_rango(detalles_df)
    /\ log' = Append(log, Info("Valores fuera de rango corregidos.", {}))
    /\ UNCHANGED <<fs, fatalidades_df, lugares_df, master_df>>

\* line 225: both joins
Merge ==
    /\ pc = "limpieza:en_rango"
    /\ IF merge_falla(detalles_df, fatalidades_df, EVENT_ID)
       THEN CleanerStep("limpieza:en_rango", "limpieza:MergeError") /\ UNCHANGED master_df
       ELSE LET first == LeftMerge(detalles_df, fatalidades_df, EVENT_ID)
            IN  IF merge_falla(first, lugares_df, EVENT_ID)
                THEN CleanerStep("limpieza:en_rango", "limpieza:MergeError")
                     /\ UNCHANGED master_df
                ELSE CleanerStep("limpieza:en_rango", "limpieza:unido")
                     /\ master_df' = LeftMerge(first, lugares_df, EVENT_ID)
    /\ UNCHANGED <<fs, detalles_df, fatalidades_df, lugares_df, log>>

\* lines 227-228: the BEGIN call, then the END call
ConvertirTiempo ==
    LET BEGIN == <<"B", "E", "G", "I", "N">>
        END_  == <<"E", "N", "D">>
        b == convertir_tiempo(master_df, BEGIN_YEARMONTH, BEGIN_DAY, BEGIN_TIME, BEGIN)
    IN  /\ CleanerStep("limpieza:unido", "limpieza:fechas")
        /\ master_df' = convertir_tiempo(b, END_YEARMONTH, END_DAY, END_TIME, END_)
        /\ log' = log \o LogTiempo(master_df, BEGIN_YEARMONTH, BEGIN_DAY, BEGIN_TIME)
                      \o LogTiempo(b, END_YEARMONTH, END_DAY, END_TIME)
        /\ UNCHANGED <<fs, detalles_df, fatalidades_df, lugares_df>>

Informe ==
    /\ CleanerStep("limpieza:fechas", "limpieza:informado")
    /\ log' = log \o informe(master_df)
    /\ UNCHANGED <<fs, tables>>

\* lines 232-235
Exportar ==
    /\ CleanerStep("limpieza:informado", "limpieza:exportado")
    /\ fs' = [fs EXCEPT !.limpio = WriteCsv(master_df)]
    /\ log' = Append(log, Info("Archivo exportado", {}))
    /\ UNCHANGED tables

LimpiezaMain ==
    \/ CargarCsv \/ LimpiarDetalles \/ LimpiarFatalidades \/ LimpiarLugares
    \/ ManejarNulos \/ CorregirFueraDeRango \/ Merge \/ ConvertirTiempo
    \/ Informe \/ Exportar

MaxDetalles == 2     \* most rows of an explored details file
MaxFatalidades == 3  \* most rows of an explored fatalities file
MaxLugares == 2      \* most rows of an explored locations file

Hail == <<"H", "a", "i", "l">>

DetallesMerge ==
    FilesOver(<<EVENT_ID, DAMAGE_PROPERTY, DAMAGE_CROPS, EVENT_TYPE>>,
              <<{<<"1">>, <<"2">>}, {<<"2", "K">>}, {<<"0">>}, {Hail}>>, MaxDetalles)
DetallesDamage ==
    FilesOver(<<EVENT_ID, DAMAGE_PROPERTY, DAMAGE_CROPS, MAGNITUDE>>,
              <<{<<"1">>}, {<<"2", "K">>, <<"-", "2">>, <<"x">>}, {<<>>, <<"-", "2">>, <<"0">>},
                {<<>>, <<"5">>}>>, MaxDetalles)
DetallesTiempo ==
    FilesOver(<<EVENT_ID, DAMAGE_PROPERTY, DAMAGE_CROPS, BEGIN_YEARMONTH, BEGIN_DAY, BEGIN_TIME>>,
              <<{<<"1">>}, {<<"0">>}, {<<"0">>},
                {<<"2", "0", "2", "4", "0", "3">>, <<"2", "0", "2", "3", "0", "2">>},
                {<<"1", "5">>, <<"3", "1">>}, {<<"9", "3", "0">>, <<"2", "5", "0", "0">>}>>, 1)
FatalidadesFiles ==
    FilesOver(<<EVENT_ID, FATALITY_AGE, FATALITY_SEX>>,
              <<{<<"1">>, <<"2">>}, {<<>>, <<"3", "0">>}, {<<"M">>}>>, MaxFatalidades)
UnaFatalidad ==
    Table(<<EVENT_ID, FATALITY_AGE, FATALITY_SEX, FATALITY_LOCATION>>,
          <<<<<<"1">>, <<"3", "0">>, <<>>, <<" ", "A">>>>>>)
LugaresFiles ==
    FilesOver(<<EVENT_ID, LOCATION>>, <<{<<>>, <<"1">>, <<"2">>}, {<<"a">>, <<"b">>}>>, MaxLugares)
    \cup {Table(<<EVENT_ID, LAT2, EVENT_TYPE>>, <<<<<<"1">>, <<"4", "5">>, <<"x">>>>>>),
          Table(<<EVENT_ID, LOCATION>>, <<<<<<"x">>, <<"a">>>>>>),
          Table(<<LOCATION>>, <<<<<<"a">>>>>>)}
UnLugar == Table(<<EVENT_ID, LOCATION>>, <<<<<<"1">>, <<"a">>>>>>)

\* choices of the three dialogs in which a file can be absent or lack columns
CleanerFaltantes ==
    {Table(<<EVENT_ID, DAMAGE_PROPERTY, DAMAGE_CROPS>>, <<<<<<"1">>, <<"0">>, <<"0">>>>>>),
     Table(<<EVENT_ID>>, <<<<<<"1">>>>>>), NoFile}
    \X {UnaFatalidad, Table(<<EVENT_ID>>, <<<<<<"1">>>>>>), NoFile}
    \X (LugaresFiles \cup {NoFile})

\* the three files the dialogs can hand to main
CleanerInputs ==
    (DetallesMerge \X FatalidadesFiles \X {UnLugar})
    \cup ((DetallesDamage \cup DetallesTiempo) \X {UnaFatalidad} \X {UnLugar})
    \cup CleanerFaltantes

InitCleaner ==
    /\ pc = "limpieza:inicio"
    /\ value = None /\ col = <<>> /\ result = None
    /\ detalles_df = None /\ fatalidades_df = None /\ lugares_df = None /\ master_df = None
    /\ df = None
    /\ umbral = UmbralLimpieza
    /\ log = <<>>
    /\ \E in \in CleanerInputs :
          fs = [NoFiles EXCEPT !.detalles = in[1], !.fatalidades = in[2], !.lugares = in[3]]

\* the cleaner, then the report script on the table it exported
NextCleaner == LimpiezaMain \/ ValidateAndReport

SpecCleaner == InitCleaner /\ [][NextCleaner]_vars

(***************************************************************************)
(* Merge fan-out, stated on the tables main holds right after line 225.    *)
(***************************************************************************)
\* the fatality rows whose key equals the key of details row i
Matching(i) ==
    {r \in Rows(fatalidades_df) : Cell(fatalidades_df, r, EVENT_ID) = Cell(detalles_df, i, EVENT_ID)}

\* the cells of master row k below the details columns, and below the
\* fatality columns
DetailsPart(k) == SubSeq(master_df.rows[k], 1, NCols(detalles_df))
FatalityPart(k) ==
    SubSeq(master_df.rows[k], NCols(detalles_df) + 1,
           NCols(detalles_df) + NCols(fatalidades_df) - 1)

\* the fatality-specific cells of fatality row r
FatalityCells(r) ==
    LET NonKey(j) == fatalidades_df.columns[j] # EVENT_ID
    IN  KeepIdx(fatalidades_df.rows[r], NonKey, 1)

SameDetails(i) == {o \in Rows(detalles_df) : detalles_df.rows[o] = detalles_df.rows[i]}

RECURSIVE ExpectedRows(_)
\* one row per match, one row for a details row without a match
ExpectedRows(i) ==
    IF i > NRows(detalles_df) THEN 0
    ELSE (IF Matching(i) = {} THEN 1 ELSE Cardinality(Matching(i))) + ExpectedRows(i + 1)

\* C1: in the master table every details row with n >= 1 matching fatality
\* rows appears once per matching fatality row, unchanged and beside that
\* row's fatality cells; every details row without a match appears once with
\* all fatality columns null; the master table holds no other rows.
C1_MergeFanOut ==
    pc = "limpieza:unido" =>
        /\ NRows(master_df) = ExpectedRows(1)
        /\ \A i \in Rows(detalles_df) :
              IF Matching(i) = {}
              THEN Cardinality({k \in Rows(master_df) :
                                   /\ DetailsPart(k) = detalles_df.rows[i]
                                   /\ \A n \in 1..Len(FatalityPart(k)) : IsNull(FatalityPart(k)[n])})
                   = Cardinality(SameDetails(i))
              ELSE \A r \in Matching(i) :
                      Cardinality({k \in Rows(master_df) :
                                      /\ DetailsPart(k) = detalles_df.rows[i]
                                      /\ FatalityPart(k) = FatalityCells(r)})
                      = Cardinality(SameDetails(i))
                        * Cardinality({q \in Matching(i) : FatalityCells(q) = FatalityCells(r)})

\* one details row with three fatalities, one with none: four master rows
C1_Witness ==
    /\ pc = "limpieza:unido"
    /\ NRows(detalles_df) = 2 /\ NRows(fatalidades_df) = 3
    /\ Cardinality(Matching(1)) = 3 /\ Matching(2) = {}
    /\ NRows(master_df) = 4
    /\ \E k \in Rows(master_df) : FatalityPart(k) = <<NaN, NaN>>

(***************************************************************************)
(* Damage clamping, stated on the step of main that calls fuera_de_rango.  *)
(***************************************************************************)
ClampStep == pc = "limpieza:sin_nulos" /\ pc' = "limpieza:en_rango"

ClampedColumn(before, after, name) ==
    HasCol(before, name) =>
        /\ HasCol(after, name)
        /\ \A i \in Rows(before) :
              LET x == Cell(before, i, name)
                  y == Cell(after, i, name)
              IN  /\ ~CellLess(y, Zero)
                  /\ CellLess(x, Zero) => y = Zero
                  /\ ~CellLess(x, Zero) => y = x

\* C9: after fuera_de_rango every value of DAMAGE_PROPERTY and of
\* DAMAGE_CROPS is >= 0, a negative value has become 0, any other value is
\* unchanged, and the table has the same columns as before the call.
C9_DamageClamped ==
    [][ClampStep => /\ ClampedColumn(detalles_df, detalles_df', DAMAGE_PROPERTY)
                    /\ ClampedColumn(detalles_df, detalles_df', DAMAGE_CROPS)
                    /\ Labels(detalles_df') = Labels(detalles_df)]_vars

(***************************************************************************)
(* Defect observability, stated on a run of the cleaner followed by the    *)
(* report script.                                                          *)
(***************************************************************************)
\* the details table as main hands it to manejar_nulos and to fuera_de_rango
Cleaned == limpiar_detalles(ReadCsv(fs.detalles))
HandedToClamp == limpieza_manejar_nulos(Cleaned, UmbralLimpieza)

\* the negative damages the run set to 0
ClampedValues ==
    {i \in Rows(HandedToClamp) : CellLess(Cell(HandedToClamp, i, DAMAGE_PROPERTY), Zero)}

\* the columns the run dropped for null excess
DroppedColumns == ColumnasSobreUmbral(Cleaned, UmbralLimpieza)

\* C10: every defect a stage handled has an entry or count in the report:
\* a run that clamped a negative damage reports a count of negative damages,
\* and a column dropped for null excess is named in the report.
C10_DefectsReported ==
    pc = "chequeo:informe" /\ fs.detalles # NoFile =>
        /\ ClampedValues # {} =>
              HasCol(ReadCsv(fs.limpio), DAMAGE_CROPS) /\ fs.informe.crops_negativos > 0
        /\ \A c \in DroppedColumns :
              \/ \E n \in 1..Len(fs.informe.columnas) : fs.informe.columnas[n] = c
              \/ \E e \in fs.informe.nulos : e[1] = c

(***************************************************************************)
(* The three entry points, each started on its own input files.            *)
(***************************************************************************)
InitEntradas ==
    /\ value = None /\ col = <<>> /\ result = None
    /\ detalles_df = None /\ fatalidades_df = None /\ lugares_df = None /\ master_df = None
    /\ df = None
    /\ log = <<>>
    /\ \/ /\ pc = "final:inicio"
          /\ umbral = UmbralFinal
          /\ \E file \in FinalFiles \cup {NoFile} : fs = [NoFiles EXCEPT !.limpio = file]
       \/ /\ pc = "chequeo:inicio"
          /\ umbral = None
          /\ \E file \in ChequeoFiles \cup {NoFile} : fs = [NoFiles EXCEPT !.limpio = file]
       \/ /\ pc = "limpieza:inicio"
          /\ umbral = UmbralLimpieza
          /\ \E in \in CleanerFaltantes :
                fs = [NoFiles EXCEPT !.detalles = in[1], !.fatalidades = in[2], !.lugares = in[3]]

NextEntradas == LimpiezaFinal \/ LimpiezaMain \/ ValidateAndReport

SpecEntradas == InitEntradas /\ [][NextEntradas]_vars

\* where a run stands when its entry point has ended by raising to its caller
\* (Limpieza final line 22; the cleaner's raise SystemExit, line 216); the
\* report script ends its failed load by an ordinary return (line 19)
EndedRaising == {"final:abortado", "limpieza:SystemExit"}

\* the run has gone past its load step and an input table was missing
FinalSinEntrada ==
    fs.limpio = NoFile /\ pc \in {"final:abortado", "final:cargado", "final:columnas",
                                  "final:marcado", "final:nulos", "final:validado",
                                  "final:TypeError", "final:guardado"}
CleanerSinEntrada ==
    /\ NoFile \in {fs.detalles, fs.fatalidades, fs.lugares}
    /\ pc \in {"limpieza:SystemExit", "limpieza:cargados", "limpieza:KeyError",
               "limpieza:detalles", "limpieza:fatalidades", "limpieza:limpios",
               "limpieza:sin_nulos", "limpieza:en_rango", "limpieza:MergeError",
               "limpieza:unido", "limpieza:fechas", "limpieza:informado",
               "limpieza:exportado"}
ChequeoSinEntrada ==
    /\ fs.limpio = NoFile /\ fs.detalles = NoFile
    /\ pc \in {"chequeo:retorno_sin_informe", "chequeo:TypeError", "chequeo:informe"}

\* C11: whenever an input table is missing or unreadable, the entry point
\* ends by raising an error to its caller, and the run has written neither
\* the cleaned table file nor the report file.
C11_FatalSurfaced ==
    /\ FinalSinEntrada => pc \in EndedRaising /\ fs.final = NoFile /\ fs.informe = NoFile
    /\ CleanerSinEntrada => pc \in EndedRaising /\ fs.limpio = NoFile /\ fs.informe = NoFile
    /\ ChequeoSinEntrada => pc \in EndedRaising /\ fs.informe = NoFile

(***************************************************************************)
(* Deduplicated locations, stated on the cleaner's tables once             *)
(* limpiar_lugares has returned.                                           *)
(***************************************************************************)
LugaresLimpios ==
    pc \in {"limpieza:limpios", "limpieza:sin_nulos", "limpieza:en_rango", "limpieza:unido"}

\* the locations table as it was loaded
LugaresLeidos == ReadCsv(fs.lugares)

\* the first loaded row that carries the key of loaded row i
FirstOfKey(i) ==
    CHOOSE f \in 1..i :
        /\ Cell(LugaresLeidos, f, EVENT_ID) = Cell(LugaresLeidos, i, EVENT_ID)
        /\ \A o \in 1..(f - 1) :
              Cell(LugaresLeidos, o, EVENT_ID) # Cell(LugaresLeidos, i, EVENT_ID)

\* the cells of loaded row i under the columns that are kept
KeptCells(i) ==
    LET Keep(j) == LugaresLeidos.columns[j] \notin {LAT2, LON2}
    IN  KeepIdx(LugaresLeidos.rows[i], Keep, 1)

\* C12: after limpiar_lugares every EVENT_ID value occurs in at most one
\* locations row, the row kept for a value is its first occurrence in the
\* loaded file, and the master table has as many rows as details LEFT JOIN
\* fatalities.
C12_LocationsDeduplicated ==
    /\ LugaresLimpios /\ HasCol(lugares_df, EVENT_ID) =>
          /\ \A i, o \in Rows(lugares_df) :
                Cell(lugares_df, i, EVENT_ID) = Cell(lugares_df, o, EVENT_ID) => i = o
          /\ \A i \in Rows(LugaresLeidos) :
                \E r \in Rows(lugares_df) : lugares_df.rows[r] = KeptCells(FirstOfKey(i))
          /\ \A r \in Rows(lugares_df) :
                \E i \in Rows(LugaresLeidos) : lugares_df.rows[r] = KeptCells(FirstOfKey(i))
    /\ pc = "limpieza:unido" => NRows(master_df) = ExpectedRows(1)

\* two locations rows of key 1 were loaded, b before a; the one with b is
\* kept and the master table has the single row of the details table
C12_Witness ==
    /\ pc = "limpieza:unido"
    /\ fs.lugares # NoFile
    /\ fs.lugares.rows = <<<<<<"1">>, <<"b">>>>, <<<<"1">>, <<"a">>>>>>
    /\ lugares_df.rows = <<<<Float(1, 0), Str(<<"b">>)>>>>
    /\ NRows(detalles_df) = 1 /\ NRows(master_df) = 1

(***************************************************************************)
(* convertir_tiempo called on one loaded table, with the columns of the    *)
(* BEGIN call of main and the prefix in col.                               *)
(***************************************************************************)
MaxTiempoRows == 2   \* most rows of an explored input of convertir_tiempo

RESULT == <<"R", "E", "S", "U", "L", "T">>     \* output_col_prefix is None
BEGIN == <<"B", "E", "G", "I", "N">>
Y202403 == <<"2", "0", "2", "4", "0", "3">>
Y202302 == <<"2", "0", "2", "3", "0", "2">>

TiempoFiles ==
    FilesOver(<<BEGIN_YEARMONTH, BEGIN_DAY, BEGIN_TIME>>,
              <<{<<>>, Y202403, Y202302}, {<<"1", "5">>, <<"3", "1">>},
                {<<"9", "3", "0">>, <<"2", "5", "0", "0">>}>>, MaxTiempoRows)
    \cup FilesOver(<<BEGIN_YEARMONTH, BEGIN_DAY>>,
              <<{<<>>, Y202403, Y202302}, {<<"1", "5">>, <<"3", "1">>}>>, MaxTiempoRows)
    \cup FilesOver(<<BEGIN_DAY, BEGIN_TIME>>,
              <<{<<"1", "5">>, <<"3", "1">>}, {<<"9", "3", "0">>, <<"2", "5", "0", "0">>}>>,
              MaxTiempoRows)

InitTiempo ==
    /\ pc = "tiempo:call"
    /\ value = None /\ result = None
    /\ detalles_df = None /\ fatalidades_df = None /\ lugares_df = None /\ master_df = None
    /\ umbral = None
    /\ log = <<>>
    /\ col \in {BEGIN, RESULT}
    /\ \E file \in TiempoFiles :
          /\ fs = [NoFiles EXCEPT !.entrada = file]
          /\ df = ReadCsv(file)

\* the body runs inside try/except; nothing in it raises on the tables explored
ConvertirTiempoLlamada ==
    /\ pc = "tiempo:call"
    /\ df' = convertir_tiempo(df, BEGIN_YEARMONTH, BEGIN_DAY, BEGIN_TIME, col)
    /\ log' = log \o LogTiempo(df, BEGIN_YEARMONTH, BEGIN_DAY, BEGIN_TIME)
    /\ pc' = "tiempo:returned"
    /\ UNCHANGED <<value, col, result, fs, tables, umbral>>

NextTiempo == ConvertirTiempoLlamada

SpecTiempo == InitTiempo /\ [][NextTiempo]_vars

(***************************************************************************)
(* Date and time reconstruction, stated on the table handed to             *)
(* convertir_tiempo and the table it returns.                              *)
(***************************************************************************)
TiempoEntrada == ReadCsv(fs.entrada)
PrefixDate == col \o <<"_", "D", "A", "T", "E">>
PrefixTime == col \o <<"_", "T", "I", "M", "E">>

\* the whole number a cell holds
WholeNumber(c) == c.m * Pow10(c.e)

\* the calendar date a year-month cell and a day cell spell, or null
CalendarDate(ym, day) ==
    IF ~IsFloat(ym) \/ ~IsFloat(day) \/ ym.e < 0 \/ day.e < 0 THEN NaN
    ELSE LET y == WholeNumber(ym) \div 100
             m == WholeNumber(ym) % 100
             d == WholeNumber(day)
         IN  IF m \in 1..12 /\ d >= 1 /\ d <= DaysInMonth(y, m) THEN DateCell(y, m, d) ELSE NaN

HasDateInputs == HasCol(TiempoEntrada, BEGIN_YEARMONTH) /\ HasCol(TiempoEntrada, BEGIN_DAY)

\* C13: convertir_tiempo returns without raising; in every row a valid
\* year-month/day pair gives that date in <prefix>_DATE and an invalid one
\* gives null; the <prefix>_TIME column is produced whenever the HHMM column
\* exists, whatever happened to the date, and the <prefix>_DATE column
\* whenever its two columns exist, whatever happened to the time.
C13_SoftIndependent ==
    pc # "tiempo:call" =>
        /\ pc = "tiempo:returned"
        /\ HasCol(TiempoEntrada, BEGIN_TIME) => HasCol(df, PrefixTime)
        /\ HasDateInputs =>
              /\ HasCol(df, PrefixDate)
              /\ \A i \in Rows(df) :
                    Cell(df, i, PrefixDate)
                    = CalendarDate(Cell(TiempoEntrada, i, BEGIN_YEARMONTH),
                                   Cell(TiempoEntrada, i, BEGIN_DAY))
====
